---- MODULE Spec2Model ----
(***************************************************************************)
(* Reflection pattern: bounded chat histories (utils/completions.py), the  *)
(* prompt composer (s01_reflection/prompts.py, 1_reflection/prompts.py)    *)
(* and the generate -> reflect loop of ReflectionAgent.run                 *)
(* (s01_reflection/agent.py).                                              *)
(*                                                                         *)
(* Python values are modelled as follows.                                  *)
(*   str        a sequence of one-character strings ("<OK>" is             *)
(*              <<"<","O","K",">">>), so that concatenation is \o and the  *)
(*              `in` operator is a real substring search                   *)
(*   None/str   arguments typed `str | None` are tagged records            *)
(*   dict       a message {"role": r, "content": c} is a record            *)
(*   list       a sequence; Python positions are 0-based, TLA+ positions   *)
(*              1-based (Python position i is TLA+ position i + 1)         *)
(*   exception  an operation that can raise has a ...Raises predicate      *)
(***************************************************************************)
EXTENDS Integers, Sequences, FiniteSets, TLC

VARIABLES
    \* ---- one ChatHistory / FixedFirstChatHistory object exercised alone
    hist,               \* the object: [cls, total_length, items]
    ctor_messages,      \* the `messages` argument the constructor was given
    appended,           \* the messages passed to append so far, in order
    last_raised,        \* whether the latest append call raised IndexError
    \* ---- prompt composer exercised alone
    custom,             \* compose_prompt argument `custom`
    base,               \* compose_prompt argument `base`
    package,            \* the package whose compose_prompt is called
    composed,           \* value returned by compose_prompt (None before the call)
    \* ---- ReflectionAgent.run
    pc,                 \* "idle" | "generate" | "reflect" | "returned" | "raised"
    user_msg,
    generation_system_prompt,
    reflection_system_prompt,
    n_steps,
    generation_history,
    reflection_history,
    final_generation,
    step,               \* loop variable of `for step in range(n_steps)`
    critique,           \* local `critique` (None until the first reflect returns)
    result,             \* value returned by run (None while running or raised)
    calls,              \* log of completion calls of the current run
    earlier             \* the run made on the agent before the current one,
                        \* as its caller saw it (None when not followed)

histVars == <<hist, ctor_messages, appended, last_raised>>
composeVars == <<custom, base, package, composed>>
runVars == <<pc, user_msg, generation_system_prompt, reflection_system_prompt,
             n_steps, generation_history, reflection_history, final_generation,
             step, critique, result, calls, earlier>>
vars == <<histVars, composeVars, runVars>>

-----------------------------------------------------------------------------
(* Bounds of the model *)

MaxCapacity == 3
MaxSeeds == 2
MaxAppends == 4
MaxSteps == 3
MaxTextLen == 2

-----------------------------------------------------------------------------
(* Python values *)

None == [tag |-> "None"]
Str(s) == [tag |-> "str", val |-> s]
List(l) == [tag |-> "list", val |-> l]

\* Sequences over S of length at most n.
SeqUpTo(S, n) == UNION {[1..k -> S] : k \in 0..n}

\* Python truthiness of a `str | None` value: None and "" are falsy.
Truthy(x) == x.tag /= "None" /\ x.val /= <<>>

\* Python `x or d` for x: str | None and d: str.
OrElse(x, d) == IF Truthy(x) THEN x.val ELSE d

\* Python `sub in s` for strings.
Contains(sub, s) ==
    \E i \in 0..(Len(s) - Len(sub)) : SubSeq(s, i + 1, i + Len(sub)) = sub

\* list.pop(i) for a 0-based position i: raises IndexError when out of range.
PopRaises(items, i) == ~(0 <= i /\ i < Len(items))
Pop(items, i) == SubSeq(items, 1, i) \o SubSeq(items, i + 2, Len(items))

\* str(x) as completions_create applies it to message.content.
NoneStr == <<"N", "o", "n", "e">>
str(x) == IF x.tag = "None" THEN NoneStr ELSE x.val

-----------------------------------------------------------------------------
(* utils/completions.py: messages and chat history containers *)

\* build_prompt_structure(prompt, role, tag=""): the tag, when non-empty,
\* wraps the content as <tag>content</tag>.
build_prompt_structure(prompt, role, tag) ==
    [role |-> role,
     content |-> IF tag /= <<>>
                 THEN <<"<">> \o tag \o <<">">> \o prompt
                      \o <<"<", "/">> \o tag \o <<">">>
                 ELSE prompt]

\* ChatHistory.__init__(messages=None, total_length=-1), inherited unchanged by
\* FixedFirstChatHistory: the seed list is copied as it is, whatever its length.
ChatHistory_init(cls, messages, total_length) ==
    [cls |-> cls,
     total_length |-> total_length,
     items |-> IF messages.tag = "None" THEN <<>> ELSE messages.val]

\* ChatHistory.append: pop(0) when the list is exactly total_length long.
ChatHistory_appendRaises(h) ==
    Len(h.items) = h.total_length /\ PopRaises(h.items, 0)

\* variant that evicts the newest message, pop(-1)
ChatHistory_append_pop_last(h, msg) ==
    [h EXCEPT !.items =
        Append(IF Len(h.items) = h.total_length
               THEN Pop(h.items, Len(h.items) - 1) ELSE h.items,
               msg)]

\* variant that evicts one message too early, at total_length - 1 messages
ChatHistory_append_early(h, msg) ==
    [h EXCEPT !.items =
        Append(IF Len(h.items) >= 1 /\ Len(h.items) + 1 = h.total_length
               THEN Pop(h.items, 0) ELSE h.items,
               msg)]

\* variant that evicts whenever the list is at least total_length long
ChatHistory_append_ge(h, msg) ==
    [h EXCEPT !.items =
        Append(IF Len(h.items) >= h.total_length THEN Pop(h.items, 0) ELSE h.items,
               msg)]

ChatHistory_append(h, msg) ==
    [h EXCEPT !.items =
        Append(IF Len(h.items) = h.total_length THEN Pop(h.items, 0) ELSE h.items,
               msg)]

\* FixedFirstChatHistory.append: pop(1) when the list is exactly total_length long.
FixedFirstChatHistory_appendRaises(h) ==
    Len(h.items) = h.total_length /\ PopRaises(h.items, 1)

\* variant that evicts position 0, as the base class does
FixedFirstChatHistory_append_pop0(h, msg) ==
    [h EXCEPT !.items =
        Append(IF Len(h.items) = h.total_length THEN Pop(h.items, 0) ELSE h.items,
               msg)]

\* variant that evicts only once the list is longer than total_length
FixedFirstChatHistory_append_late(h, msg) ==
    [h EXCEPT !.items =
        Append(IF Len(h.items) > h.total_length THEN Pop(h.items, 1) ELSE h.items,
               msg)]

\* variant that evicts the newest message, pop(-1)
FixedFirstChatHistory_append_pop_last(h, msg) ==
    [h EXCEPT !.items =
        Append(IF Len(h.items) = h.total_length
               THEN Pop(h.items, Len(h.items) - 1) ELSE h.items,
               msg)]

FixedFirstChatHistory_append(h, msg) ==
    [h EXCEPT !.items =
        Append(IF Len(h.items) = h.total_length THEN Pop(h.items, 1) ELSE h.items,
               msg)]

\* history.append(msg): dispatch on the class of the object.
appendRaises(h) ==
    IF h.cls = "FixedFirstChatHistory"
    THEN FixedFirstChatHistory_appendRaises(h)
    ELSE ChatHistory_appendRaises(h)

append(h, msg) ==
    IF h.cls = "FixedFirstChatHistory"
    THEN FixedFirstChatHistory_append(h, msg)
    ELSE ChatHistory_append(h, msg)

\* update_chat_history(history, msg, role)
update_chat_historyRaises(history) == appendRaises(history)

\* variant that files every message under the role "user"
update_chat_history_user(history, msg, role) ==
    append(history, build_prompt_structure(msg, "user", <<>>))

update_chat_history(history, msg, role) ==
    append(history, build_prompt_structure(msg, role, <<>>))

-----------------------------------------------------------------------------
(* A history object exercised alone: construct it, then append to it *)

Classes == {"ChatHistory", "FixedFirstChatHistory"}

\* messages a caller may hold: one per role
Msgs ==
    {build_prompt_structure(<<"s">>, "system", <<>>),
     build_prompt_structure(<<"u">>, "user", <<>>),
     build_prompt_structure(<<"a">>, "assistant", <<>>)}

SeedLists == {None} \cup {List(l) : l \in SeqUpTo(Msgs, MaxSeeds)}

\* total_length = -1 is the default (unbounded)
Capacities == (-1)..MaxCapacity

IdleRun ==
    /\ pc = "idle"
    /\ user_msg = <<>>
    /\ generation_system_prompt = None
    /\ reflection_system_prompt = None
    /\ n_steps = 0
    /\ generation_history = ChatHistory_init("FixedFirstChatHistory", None, -1)
    /\ reflection_history = ChatHistory_init("FixedFirstChatHistory", None, -1)
    /\ final_generation = <<>>
    /\ step = 0
    /\ critique = None
    /\ result = None
    /\ calls = <<>>
    /\ earlier = None

IdleHistory ==
    /\ hist = ChatHistory_init("ChatHistory", None, -1)
    /\ ctor_messages = None
    /\ appended = <<>>
    /\ last_raised = FALSE

IdleCompose ==
    /\ custom = None
    /\ base = <<>>
    /\ package = "s01_reflection"
    /\ composed = None

InitHistory ==
    /\ \E cls \in Classes, messages \in SeedLists, total_length \in Capacities :
          /\ hist = ChatHistory_init(cls, messages, total_length)
          /\ ctor_messages = messages
    /\ appended = <<>>
    /\ last_raised = FALSE
    /\ IdleCompose
    /\ IdleRun

\* hist.append(msg) returns normally
AppendOk(msg) ==
    /\ Len(appended) < MaxAppends
    /\ ~appendRaises(hist)
    /\ hist' = append(hist, msg)
    /\ appended' = Append(appended, msg)
    /\ last_raised' = FALSE
    /\ UNCHANGED <<ctor_messages, composeVars, runVars>>

\* hist.append(msg) raises IndexError out of list.pop: the list is left as it was
AppendRaise(msg) ==
    /\ Len(appended) < MaxAppends
    /\ appendRaises(hist)
    /\ appended' = Append(appended, msg)
    /\ last_raised' = TRUE
    /\ UNCHANGED <<hist, ctor_messages, composeVars, runVars>>

NextHistory ==
    \E msg \in Msgs : AppendOk(msg) \/ AppendRaise(msg)

SpecHistory == InitHistory /\ [][NextHistory]_vars

\* the list built by the constructor
Seeds == IF ctor_messages.tag = "None" THEN <<>> ELSE ctor_messages.val

-----------------------------------------------------------------------------
(* s01_reflection/prompts.py and 1_reflection/prompts.py (identical text) *)

\* The base prompts, one element per line of the triple-quoted literal (a
\* leading newline, three lines of text). Only their identity and their
\* position in the composed prompt matter to the loop.
BASE_GENERATION_SYSTEM_PROMPT ==
    <<"\n",
      "Your task is to Generate the best content possible for the user's request.\n",
      "If the user provides critique, respond with a revised version of your previous attempt.\n",
      "You must always output the revised content.\n">>

BASE_REFLECTION_SYSTEM_PROMPT ==
    <<"\n",
      "You are tasked with generating critique and recommendations to the user's generated content.\n",
      "If the user content has something wrong or something to be improved, output a list of recommendations\n",
      "and critiques. If the user content is ok and there's nothing to change, output this: <OK>\n">>

\* variant that puts a newline between a custom prompt and the base prompt
compose_prompt_newline(custom_, base_) ==
    IF Truthy(custom_) THEN custom_.val \o <<"\n">> \o base_ ELSE base_

\* s01_reflection/prompts.py, compose_prompt(custom, base):
\* (custom or "") + base
compose_prompt(custom_, base_) == OrElse(custom_, <<>>) \o base_

\* 1_reflection/prompts.py, compose_prompt(custom, base): the same expression
compose_prompt_1_reflection(custom_, base_) == OrElse(custom_, <<>>) \o base_

-----------------------------------------------------------------------------
(* The composer exercised alone: pick the arguments, then call it *)

Chars == {"X", " ", "b"}
Texts == SeqUpTo(Chars, MaxTextLen)
OptTexts == {None} \cup {Str(t) : t \in Texts}

Packages == {"s01_reflection", "1_reflection"}

InitCompose ==
    /\ custom \in OptTexts
    /\ base \in Texts
    /\ package \in Packages
    /\ composed = None
    /\ IdleHistory
    /\ IdleRun

\* result = compose_prompt(custom, base)
ComposePrompt ==
    /\ composed = None
    /\ composed' = IF package = "s01_reflection"
                    THEN Str(compose_prompt(custom, base))
                    ELSE Str(compose_prompt_1_reflection(custom, base))
    /\ UNCHANGED <<custom, base, package, histVars, runVars>>

NextCompose == ComposePrompt

SpecCompose == InitCompose /\ [][NextCompose]_vars

-----------------------------------------------------------------------------
(* utils/completions.py: completions_create, and the client behind it *)

\* What client.chat.completions.create does when called: it raises, or it
\* returns a response object with a list of choices, each holding a message
\* whose content is a string or None.
Raise == [kind |-> "raise"]
Response(choices) == [kind |-> "response", choices |-> choices]
Choice(content) == [message |-> [content |-> content]]

\* completions_create raises when the client raises, and IndexError when
\* response.choices is empty (choices[0]).
completions_createRaises(resp) ==
    IF resp.kind = "raise" THEN TRUE ELSE Len(resp.choices) = 0

\* return str(response.choices[0].message.content)
completions_create(resp) == str(resp.choices[1].message.content)

-----------------------------------------------------------------------------
(* s01_reflection/agent.py: ReflectionAgent *)

\* _request_completion, generate and reflect hand the history to
\* completions_create and return its output (verbose only prints); nothing
\* is caught on the way.
_request_completionRaises(resp) == completions_createRaises(resp)
_request_completion(resp) == completions_create(resp)
generateRaises(resp) == _request_completionRaises(resp)
generate(resp) == _request_completion(resp)
reflectRaises(resp) == _request_completionRaises(resp)
reflect(resp) == _request_completion(resp)

\* variant with room for one more message in the generation history
GENERATION_TOTAL_LENGTH_plus1 == 3 + 1

\* variant with room for one more message in the reflection history
REFLECTION_TOTAL_LENGTH_plus1 == 3 + 1

\* total_length=3 of the two histories built by run
GENERATION_TOTAL_LENGTH == 3
REFLECTION_TOTAL_LENGTH == 3

\* the literal tested by `if "<OK>" in critique`
OK_SENTINEL == <<"<", "O", "K", ">">>
\* variant that stops only when the critique is exactly the sentinel
StopSequenceFound_exact(critique_) == critique_ = OK_SENTINEL
StopSequenceFound(critique_) == Contains(OK_SENTINEL, critique_)

\* `for step in range(n_steps)`: the body runs for index i iff i < n_steps
\* variants: range(n_steps - 1) and range(n_steps + 1)
RangeHasNext_short(i, n) == i + 1 < n
RangeHasNext_long(i, n) == i <= n
\* variant: `while step != n_steps` in place of the range
RangeHasNext_ne(i, n) == i /= n
RangeHasNext(i, n) == i < n

\* final_generation: str = ""
InitialFinalGeneration == <<>>

\* the caller's arguments <<user_msg, generation_system_prompt,
\* reflection_system_prompt>>: both prompts omitted, an empty and a non-empty
\* one, a non-empty one and an omitted one
RunArgs ==
    {<<<<"u">>, None, None>>,
     <<<<"v">>, Str(<<>>), Str(<<"q">>)>>,
     <<<<"u">>, Str(<<"p">>), None>>}
\* n_steps=5 is the budget of the usage example of run_reflection.py
EXAMPLE_N_STEPS == 5
StepBudgets == ((-1)..MaxSteps) \cup {EXAMPLE_N_STEPS}

\* what the client may answer to a generate call and to a reflect call
GenerateResponses ==
    {Raise, Response(<<>>), Response(<<Choice(None)>>),
     Response(<<Choice(Str(<<"a">>))>>),
     Response(<<Choice(Str(OK_SENTINEL))>>)}

ReflectResponses ==
    {Raise, Response(<<>>), Response(<<Choice(None)>>),
     Response(<<Choice(Str(OK_SENTINEL))>>),
     Response(<<Choice(Str(<<"x", "<", "O", "K", ">", "y">>))>>),
     Response(<<Choice(Str(<<"<", "O", "K">>))>>)}

\* one entry of the call log: the stage, the messages handed to the client,
\* what the client did, and what the stage got back (None when it raised)
Call(stage, history, resp, output) ==
    [stage |-> stage, history |-> history.items, response |-> resp,
     output |-> output]

Init ==
    /\ IdleRun
    /\ IdleHistory
    /\ IdleCompose

\* variant that builds the two histories once per agent and keeps them from
\* one run to the next
RunStart_reuse(msg, gsp, rsp, n) ==
    /\ pc \in {"idle", "returned", "raised"}
    /\ user_msg' = msg
    /\ generation_system_prompt' = gsp
    /\ reflection_system_prompt' = rsp
    /\ n_steps' = n
    /\ generation_history' =
          IF pc = "idle"
          THEN ChatHistory_init(
                   "FixedFirstChatHistory",
                   List(<<build_prompt_structure(
                              compose_prompt(gsp, BASE_GENERATION_SYSTEM_PROMPT),
                              "system", <<>>),
                          build_prompt_structure(msg, "user", <<>>)>>),
                   GENERATION_TOTAL_LENGTH)
          ELSE update_chat_history(generation_history, msg, "user")
    /\ reflection_history' =
          IF pc = "idle"
          THEN ChatHistory_init(
                   "FixedFirstChatHistory",
                   List(<<build_prompt_structure(
                              compose_prompt(rsp, BASE_REFLECTION_SYSTEM_PROMPT),
                              "system", <<>>)>>),
                   REFLECTION_TOTAL_LENGTH)
          ELSE reflection_history
    /\ final_generation' = InitialFinalGeneration
    /\ step' = 0
    /\ critique' = None
    /\ calls' = <<>>
    /\ IF RangeHasNext(0, n)
       THEN pc' = "generate" /\ result' = None
       ELSE pc' = "returned" /\ result' = Str(InitialFinalGeneration)
    /\ UNCHANGED <<histVars, composeVars>>

\* run(user_msg, generation_system_prompt=, reflection_system_prompt=, n_steps=)
\* up to the first iteration of the loop; with an empty range the loop body is
\* skipped and run returns final_generation at once.
RunStart(msg, gsp, rsp, n) ==
    /\ pc \in {"idle", "returned", "raised"}
    /\ user_msg' = msg
    /\ generation_system_prompt' = gsp
    /\ reflection_system_prompt' = rsp
    /\ n_steps' = n
    /\ generation_history' =
          ChatHistory_init(
              "FixedFirstChatHistory",
              List(<<build_prompt_structure(
                         compose_prompt(gsp, BASE_GENERATION_SYSTEM_PROMPT),
                         "system", <<>>),
                     build_prompt_structure(msg, "user", <<>>)>>),
              GENERATION_TOTAL_LENGTH)
    /\ reflection_history' =
          ChatHistory_init(
              "FixedFirstChatHistory",
              List(<<build_prompt_structure(
                         compose_prompt(rsp, BASE_REFLECTION_SYSTEM_PROMPT),
                         "system", <<>>)>>),
              REFLECTION_TOTAL_LENGTH)
    /\ final_generation' = InitialFinalGeneration
    /\ step' = 0
    /\ critique' = None
    /\ calls' = <<>>
    /\ IF RangeHasNext(0, n)
       THEN pc' = "generate" /\ result' = None
       ELSE pc' = "returned" /\ result' = Str(InitialFinalGeneration)
    /\ UNCHANGED <<histVars, composeVars>>

\* 1) final_generation = self.generate(generation_history) returns; the
\*    candidate is appended to both histories.
GenerateOk(resp) ==
    /\ pc = "generate"
    /\ ~generateRaises(resp)
    /\ final_generation' = generate(resp)
    /\ generation_history' =
          update_chat_history(generation_history, final_generation', "assistant")
    /\ reflection_history' =
          update_chat_history(reflection_history, final_generation', "user")
    /\ calls' = Append(calls, Call("generate", generation_history, resp,
                                   Str(generate(resp))))
    /\ pc' = "reflect"
    /\ UNCHANGED <<user_msg, generation_system_prompt, reflection_system_prompt,
                   n_steps, step, critique, result, histVars, composeVars,
                   earlier>>

\* variant that catches the exception and calls generate again
GenerateFail_retry(resp) ==
    /\ pc = "generate"
    /\ generateRaises(resp)
    /\ calls' = Append(calls, Call("generate", generation_history, resp, None))
    /\ UNCHANGED <<pc, user_msg, generation_system_prompt, reflection_system_prompt,
                   n_steps, generation_history, reflection_history,
                   final_generation, step, critique, result, histVars, composeVars,
                   earlier>>

\* 1) self.generate raises: the exception leaves run.
GenerateFail(resp) ==
    /\ pc = "generate"
    /\ generateRaises(resp)
    /\ calls' = Append(calls, Call("generate", generation_history, resp, None))
    /\ pc' = "raised"
    /\ UNCHANGED <<user_msg, generation_system_prompt, reflection_system_prompt,
                   n_steps, generation_history, reflection_history,
                   final_generation, step, critique, result, histVars, composeVars,
                   earlier>>

\* variant that catches the exception and calls reflect again
ReflectFail_retry(resp) ==
    /\ pc = "reflect"
    /\ reflectRaises(resp)
    /\ calls' = Append(calls, Call("reflect", reflection_history, resp, None))
    /\ UNCHANGED <<pc, user_msg, generation_system_prompt, reflection_system_prompt,
                   n_steps, generation_history, reflection_history,
                   final_generation, step, critique, result, histVars, composeVars,
                   earlier>>

\* 2) self.reflect raises: the exception leaves run.
ReflectFail(resp) ==
    /\ pc = "reflect"
    /\ reflectRaises(resp)
    /\ calls' = Append(calls, Call("reflect", reflection_history, resp, None))
    /\ pc' = "raised"
    /\ UNCHANGED <<user_msg, generation_system_prompt, reflection_system_prompt,
                   n_steps, generation_history, reflection_history,
                   final_generation, step, critique, result, histVars, composeVars,
                   earlier>>

\* variant that breaks only after the critique has been appended
ReflectStop_appending(resp) ==
    /\ pc = "reflect"
    /\ ~reflectRaises(resp)
    /\ StopSequenceFound(reflect(resp))
    /\ critique' = Str(reflect(resp))
    /\ generation_history' =
          update_chat_history(generation_history, reflect(resp), "user")
    /\ reflection_history' =
          update_chat_history(reflection_history, reflect(resp), "assistant")
    /\ calls' = Append(calls, Call("reflect", reflection_history, resp,
                                   Str(reflect(resp))))
    /\ pc' = "returned"
    /\ result' = Str(final_generation)
    /\ UNCHANGED <<user_msg, generation_system_prompt, reflection_system_prompt,
                   n_steps, final_generation, step, histVars, composeVars,
                   earlier>>

\* variant that returns the critique instead of the candidate
ReflectStop_returns_critique(resp) ==
    /\ pc = "reflect"
    /\ ~reflectRaises(resp)
    /\ StopSequenceFound(reflect(resp))
    /\ critique' = Str(reflect(resp))
    /\ calls' = Append(calls, Call("reflect", reflection_history, resp,
                                   Str(reflect(resp))))
    /\ pc' = "returned"
    /\ result' = Str(reflect(resp))
    /\ UNCHANGED <<user_msg, generation_system_prompt, reflection_system_prompt,
                   n_steps, generation_history, reflection_history,
                   final_generation, step, histVars, composeVars,
                   earlier>>

\* 2) critique = self.reflect(reflection_history); 3) "<OK>" in critique:
\*    break, then return final_generation.
ReflectStop(resp) ==
    /\ pc = "reflect"
    /\ ~reflectRaises(resp)
    /\ StopSequenceFound(reflect(resp))
    /\ critique' = Str(reflect(resp))
    /\ calls' = Append(calls, Call("reflect", reflection_history, resp,
                                   Str(reflect(resp))))
    /\ pc' = "returned"
    /\ result' = Str(final_generation)
    /\ UNCHANGED <<user_msg, generation_system_prompt, reflection_system_prompt,
                   n_steps, generation_history, reflection_history,
                   final_generation, step, histVars, composeVars,
                   earlier>>

\* variant that feeds the critique back to the generator only
ReflectContinue_gen_only(resp) ==
    /\ pc = "reflect"
    /\ ~reflectRaises(resp)
    /\ ~StopSequenceFound(reflect(resp))
    /\ critique' = Str(reflect(resp))
    /\ generation_history' =
          update_chat_history(generation_history, reflect(resp), "user")
    /\ calls' = Append(calls, Call("reflect", reflection_history, resp,
                                   Str(reflect(resp))))
    /\ step' = step + 1
    /\ IF RangeHasNext(step + 1, n_steps)
       THEN pc' = "generate" /\ result' = None
       ELSE pc' = "returned" /\ result' = Str(final_generation)
    /\ UNCHANGED <<user_msg, generation_system_prompt, reflection_system_prompt,
                   n_steps, reflection_history, final_generation, histVars,
                   composeVars,
                   earlier>>

\* 2) critique = self.reflect(reflection_history); 4) the critique is appended
\*    to both histories; the loop goes on to the next index of the range, or
\*    run returns final_generation when the range is exhausted.
ReflectContinue(resp) ==
    /\ pc = "reflect"
    /\ ~reflectRaises(resp)
    /\ ~StopSequenceFound(reflect(resp))
    /\ critique' = Str(reflect(resp))
    /\ generation_history' =
          update_chat_history(generation_history, reflect(resp), "user")
    /\ reflection_history' =
          update_chat_history(reflection_history, reflect(resp), "assistant")
    /\ calls' = Append(calls, Call("reflect", reflection_history, resp,
                                   Str(reflect(resp))))
    /\ step' = step + 1
    /\ IF RangeHasNext(step + 1, n_steps)
       THEN pc' = "generate" /\ result' = None
       ELSE pc' = "returned" /\ result' = Str(final_generation)
    /\ UNCHANGED <<user_msg, generation_system_prompt, reflection_system_prompt,
                   n_steps, final_generation, histVars, composeVars,
                   earlier>>

Next ==
    \/ \E args \in RunArgs, n \in StepBudgets :
          RunStart(args[1], args[2], args[3], n) /\ UNCHANGED earlier
    \/ \E resp \in GenerateResponses : GenerateOk(resp)
    \/ \E resp \in GenerateResponses : GenerateFail(resp)
    \/ \E resp \in ReflectResponses : ReflectFail(resp)
    \/ \E resp \in ReflectResponses : ReflectStop(resp)
    \/ \E resp \in ReflectResponses : ReflectContinue(resp)

Spec == Init /\ [][Next]_vars

-----------------------------------------------------------------------------
\* One step of a run in progress: the pending completion call comes back (with
\* a value or with an exception) and run goes on to its next statement.
RunStep ==
    \/ \E resp \in GenerateResponses : GenerateOk(resp)
    \/ \E resp \in GenerateResponses : GenerateFail(resp)
    \/ \E resp \in ReflectResponses : ReflectFail(resp)
    \/ \E resp \in ReflectResponses : ReflectStop(resp)
    \/ \E resp \in ReflectResponses : ReflectContinue(resp)

\* run is synchronous, single-threaded code: once called, it executes its
\* statements one after the other, and it waits only inside a completion
\* call. With every completion call coming back, a run in progress keeps
\* taking steps, which is weak fairness of RunStep. Calling run in the first
\* place is up to the caller and is not fair.
FairSpec == Init /\ [][Next]_vars /\ WF_vars(RunStep)

\* Two consecutive calls of run on one agent. The first call is followed to
\* its end; the second call records how the first one went (its arguments, its
\* completion calls, how it ended) and is followed to its end in turn.
MaxRerunSteps == 2
RerunBudgets == 0..MaxRerunSteps

RerunGenerateResponses ==
    {Raise, Response(<<Choice(None)>>), Response(<<Choice(Str(<<"a">>))>>)}

RerunReflectResponses ==
    {Raise, Response(<<Choice(Str(OK_SENTINEL))>>),
     Response(<<Choice(Str(<<"<", "O", "K">>))>>)}

\* the run that has just ended, as its caller saw it
EndedRun ==
    [tag |-> "run", user_msg |-> user_msg,
     generation_system_prompt |-> generation_system_prompt,
     reflection_system_prompt |-> reflection_system_prompt,
     n_steps |-> n_steps, calls |-> calls, pc |-> pc, result |-> result]

\* agent.run(...) on an agent that has not run yet
FirstRun(msg, gsp, rsp, n) ==
    /\ pc = "idle"
    /\ RunStart(msg, gsp, rsp, n)
    /\ UNCHANGED earlier

\* agent.run(...) again, on the same agent, once the first run is over
RunAgain(msg, gsp, rsp, n) ==
    /\ pc \in {"returned", "raised"}
    /\ earlier = None
    /\ earlier' = EndedRun
    /\ RunStart(msg, gsp, rsp, n)

NextRerun ==
    \/ \E args \in RunArgs, n \in RerunBudgets :
          FirstRun(args[1], args[2], args[3], n)
    \/ \E args \in RunArgs, n \in RerunBudgets :
          RunAgain(args[1], args[2], args[3], n)
    \/ \E resp \in RerunGenerateResponses : GenerateOk(resp)
    \/ \E resp \in RerunGenerateResponses : GenerateFail(resp)
    \/ \E resp \in RerunReflectResponses : ReflectFail(resp)
    \/ \E resp \in RerunReflectResponses : ReflectStop(resp)
    \/ \E resp \in RerunReflectResponses : ReflectContinue(resp)

SpecRerun == Init /\ [][NextRerun]_vars

(* Properties of the history containers (SpecHistory) *)

\* C1. Capacity invariant: a history whose total_length is a capacity >= 1 (not
\* the unbounded -1), whatever seed list its constructor was given, holds at
\* most total_length messages after one or more append calls.
C1_CapacityInvariant ==
    (hist.total_length >= 1 /\ Len(appended) >= 1)
        => Len(hist.items) <= hist.total_length

\* C2. FixedFirst invariant: in a FixedFirstChatHistory with total_length >= 2
\* that was seeded with at least one message, position 0 still holds the first
\* seed after one or more append calls.
C2_FixedFirstInvariant ==
    (/\ hist.cls = "FixedFirstChatHistory"
     /\ hist.total_length >= 2
     /\ Len(Seeds) >= 1
     /\ Len(appended) >= 1)
        => /\ Len(hist.items) >= 1
           /\ hist.items[1] = Seeds[1]

\* C2 witness: a full FixedFirst history of capacity 2 that has evicted twice
\* and still holds its seed in front of the latest, different, message.
C2_Witness ==
    /\ hist.cls = "FixedFirstChatHistory"
    /\ hist.total_length = 2
    /\ Len(Seeds) = 1
    /\ Len(appended) = 3
    /\ appended[1] /= Seeds[1]
    /\ appended[3] /= Seeds[1]
    /\ hist.items = <<Seeds[1], appended[3]>>

-----------------------------------------------------------------------------
(* Properties of ReflectionAgent.run (Spec) *)

GenerateCalls == SelectSeq(calls, LAMBDA c : c.stage = "generate")
ReflectCalls == SelectSeq(calls, LAMBDA c : c.stage = "reflect")
LastCall == calls[Len(calls)]

\* the call returned a text that contains the four characters <OK>
CritiqueHasOK(c) ==
    IF c.output.tag = "str"
    THEN \E i \in 1..(Len(c.output.val) - 3) :
            /\ c.output.val[i] = "<"
            /\ c.output.val[i + 1] = "O"
            /\ c.output.val[i + 2] = "K"
            /\ c.output.val[i + 3] = ">"
    ELSE FALSE

\* the client itself failed to answer the call
ServiceFails(c) == c.response.kind = "raise"

\* C3. Sentinel termination: with n_steps >= 1, once the k-th critique is the
\* first to contain "<OK>", run has returned after exactly k generate calls and
\* k reflect calls, and its result is the text of the k-th generate call.
C3_SentinelTermination ==
    \A k \in 1..Len(ReflectCalls) :
        (/\ n_steps >= 1
         /\ CritiqueHasOK(ReflectCalls[k])
         /\ \A j \in 1..(k - 1) : ~CritiqueHasOK(ReflectCalls[j]))
            => /\ pc = "returned"
               /\ Len(GenerateCalls) = k
               /\ Len(ReflectCalls) = k
               /\ result = GenerateCalls[k].output

\* C3 witness: a run with n_steps = 5 stopped in its second step by a critique
\* that only contains the sentinel, and returned the second candidate.
C3_Witness ==
    /\ pc = "returned"
    /\ n_steps = 5
    /\ Len(ReflectCalls) = 2
    /\ Len(GenerateCalls) = 2
    /\ CritiqueHasOK(ReflectCalls[2])
    /\ ReflectCalls[2].output /= Str(<<"<", "O", "K", ">">>)
    /\ GenerateCalls[1].output /= GenerateCalls[2].output
    /\ result = GenerateCalls[2].output

\* C4. Budget exhaustion: when run with n_steps = n >= 1 has returned and no
\* critique contained "<OK>", it made exactly n generate calls and n reflect
\* calls and its result is the text of the n-th generate call.
C4_BudgetExhaustion ==
    (/\ pc = "returned"
     /\ n_steps >= 1
     /\ \A k \in 1..Len(ReflectCalls) : ~CritiqueHasOK(ReflectCalls[k]))
        => /\ Len(GenerateCalls) = n_steps
           /\ Len(ReflectCalls) = n_steps
           /\ result = GenerateCalls[n_steps].output

\* C4 witness: a run with n_steps = 3 that used its whole budget and returned
\* the third candidate, which differs from the second.
C4_Witness ==
    /\ pc = "returned"
    /\ n_steps = 3
    /\ Len(ReflectCalls) = 3
    /\ Len(GenerateCalls) = 3
    /\ \A k \in 1..3 : ~CritiqueHasOK(ReflectCalls[k])
    /\ GenerateCalls[2].output /= GenerateCalls[3].output
    /\ result = GenerateCalls[3].output

\* C5. Degenerate step budget: run called with n_steps <= 0 makes no completion
\* call, does not raise, and returns the empty string.
C5_DegenerateBudget ==
    (pc /= "idle" /\ n_steps <= 0)
        => /\ pc = "returned"
           /\ calls = <<>>
           /\ result = Str(<<>>)

\* C5 witness: run was called with n_steps = 0 and has returned.
C5_Witness ==
    /\ pc = "returned"
    /\ n_steps = 0
    /\ calls = <<>>
    /\ result = Str(<<>>)

\* C6. History cross-population: right after the generate stage of an iteration,
\* before its reflect call, the last message of the reflection history has role
\* user, the last message of the generation history has role assistant, and
\* both carry the candidate this iteration's generate call returned.
C6_CrossPopulation ==
    pc = "reflect"
        => /\ calls /= <<>>
           /\ LastCall.stage = "generate"
           /\ LastCall.output.tag = "str"
           /\ reflection_history.items[Len(reflection_history.items)]
                 = [role |-> "user", content |-> LastCall.output.val]
           /\ generation_history.items[Len(generation_history.items)]
                 = [role |-> "assistant", content |-> LastCall.output.val]

\* C6 witness: the second iteration has generated a candidate that differs from
\* the first one and is about to reflect.
C6_Witness ==
    /\ pc = "reflect"
    /\ step = 1
    /\ Len(GenerateCalls) = 2
    /\ GenerateCalls[1].output /= GenerateCalls[2].output
    /\ reflection_history.items[Len(reflection_history.items)].content
          = GenerateCalls[2].output.val

\* the system prompt run builds from a caller's prompt c and a base prompt b
ExpectedSystemPrompt(c, b) == IF c.tag = "None" THEN b ELSE c.val \o b

\* C7. Bounded context: at every point of a run each of the two histories holds
\* at most 3 messages and starts with its system message, the composed
\* generation prompt and the composed reflection prompt respectively.
C7_BoundedContext ==
    pc /= "idle"
        => /\ Len(generation_history.items) \in 1..3
           /\ Len(reflection_history.items) \in 1..3
           /\ generation_history.items[1]
                 = [role |-> "system",
                    content |-> ExpectedSystemPrompt(generation_system_prompt,
                                                     BASE_GENERATION_SYSTEM_PROMPT)]
           /\ reflection_history.items[1]
                 = [role |-> "system",
                    content |-> ExpectedSystemPrompt(reflection_system_prompt,
                                                     BASE_REFLECTION_SYSTEM_PROMPT)]

\* C7 witness: the third iteration is about to start, both histories are full
\* and have evicted, and the generation prompt was customised.
C7_Witness ==
    /\ pc = "generate"
    /\ step = 2
    /\ Len(generation_history.items) = 3
    /\ Len(reflection_history.items) = 3
    /\ generation_system_prompt = Str(<<"p">>)
    /\ generation_history.items[1].role = "system"

\* C8. Critique discarded on stop: a reflect call whose critique contains "<OK>"
\* leaves both histories unchanged and ends the run; after it no completion
\* call is made in that run.
C8_Step ==
    /\ (/\ Len(calls') = Len(calls) + 1
        /\ calls'[Len(calls')].stage = "reflect"
        /\ CritiqueHasOK(calls'[Len(calls')]))
          => /\ generation_history' = generation_history
             /\ reflection_history' = reflection_history
             /\ pc' = "returned"
    /\ (/\ calls /= <<>>
        /\ LastCall.stage = "reflect"
        /\ CritiqueHasOK(LastCall))
          => /\ pc = "returned"
             /\ (calls' = calls \/ calls' = <<>>)

\* C8 as a property of every step of run: C8_Step holds of each transition.
C8_CritiqueDiscardedOnStop == [][C8_Step]_vars

\* C8 witness: a run stopped in its second step by a critique containing the
\* sentinel, and neither history holds that critique.
C8_Witness ==
    /\ pc = "returned"
    /\ Len(calls) = 4
    /\ LastCall.stage = "reflect"
    /\ CritiqueHasOK(LastCall)
    /\ \A i \in 1..Len(generation_history.items) :
          generation_history.items[i].content /= LastCall.output.val
    /\ \A i \in 1..Len(reflection_history.items) :
          reflection_history.items[i].content /= LastCall.output.val

\* C9. Service failure propagation: a completion call on which the client fails
\* makes run raise: no result, no retry, no further call in that run. The
\* histories stay as the failing call found them: as they were at the start of
\* the step for a generate call, with the candidate appended to both for a
\* reflect call.
C9_Step ==
    /\ (/\ Len(calls') = Len(calls) + 1
        /\ ServiceFails(calls'[Len(calls')]))
          => /\ pc' = "raised"
             /\ result' = None
             /\ generation_history' = generation_history
             /\ reflection_history' = reflection_history
             /\ calls'[Len(calls')].stage = "generate"
                   => /\ pc = "generate"
                      /\ calls'[Len(calls')].history = generation_history'.items
             /\ calls'[Len(calls')].stage = "reflect"
                   => /\ pc = "reflect"
                      /\ generation_history'.items[Len(generation_history'.items)]
                            = [role |-> "assistant", content |-> final_generation']
                      /\ reflection_history'.items[Len(reflection_history'.items)]
                            = [role |-> "user", content |-> final_generation']
                      /\ final_generation' = calls[Len(calls)].output.val
    /\ pc = "raised" => (calls' = calls \/ calls' = <<>>)

\* C9 as a property of every step of run: C9_Step holds of each transition.
C9_ServiceFailurePropagation == [][C9_Step]_vars

\* C9 witness: the reflect call of the second step failed and run raised, the
\* candidate of that step being the last message of both histories.
C9_Witness ==
    /\ pc = "raised"
    /\ result = None
    /\ Len(calls) = 4
    /\ LastCall.stage = "reflect"
    /\ ServiceFails(LastCall)
    /\ generation_history.items[3].content = calls[3].output.val
    /\ reflection_history.items[3].content = calls[3].output.val

-----------------------------------------------------------------------------
(* Properties of compose_prompt (SpecCompose) *)

\* C10. Composer identity: compose_prompt(None, base) and compose_prompt("", base)
\* are base, and for a non-empty custom text the result is that text followed
\* at once by base.
C10_ComposerIdentity ==
    composed.tag = "str"
        => composed.val =
              (IF custom.tag = "None" THEN base
               ELSE IF custom.val = <<>> THEN base
               ELSE custom.val \o base)

\* C10 witness: compose_prompt("X", "b") was called and gave "Xb".
C10_Witness ==
    /\ composed = Str(<<"X", "b">>)
    /\ custom = Str(<<"X">>)
    /\ base = <<"b">>

-----------------------------------------------------------------------------
(* Contents of the history containers (SpecHistory) *)

Min(a, b) == IF a <= b THEN a ELSE b

\* the last n elements of s
LastN(s, n) == SubSeq(s, Len(s) - n + 1, Len(s))

\* C11. Plain eviction is FIFO: a ChatHistory of capacity c >= 1 that started
\* empty holds, after m appends, exactly the last min(m, c) appended messages in
\* the order they were appended, and no append raised. (Between two such states
\* an append at length c turns the list into its tail followed by the new
\* message: position 0 is what it removes.)
C11_PlainFifo ==
    (/\ hist.cls = "ChatHistory"
     /\ hist.total_length >= 1
     /\ Seeds = <<>>)
        => /\ hist.items = LastN(appended, Min(Len(appended), hist.total_length))
           /\ ~last_raised

\* C11 witness: a ChatHistory of capacity 2 that started empty and has evicted
\* twice holds the third and fourth appended messages, which differ from each
\* other and from the evicted ones.
C11_Witness ==
    /\ hist.cls = "ChatHistory"
    /\ hist.total_length = 2
    /\ Seeds = <<>>
    /\ Len(appended) = 4
    /\ appended[1] /= appended[3]
    /\ appended[2] /= appended[4]
    /\ appended[3] /= appended[4]
    /\ hist.items = <<appended[3], appended[4]>>

\* C12. No premature eviction: for both classes an append made while the list
\* is shorter than total_length removes nothing: the list afterwards is the
\* list before with the new message added at the end.
C12_Step ==
    (/\ Len(appended') = Len(appended) + 1
     /\ Len(hist.items) < hist.total_length)
        => /\ hist'.items = Append(hist.items, appended'[Len(appended')])
           /\ ~last_raised'

\* C12 as a property of every append.
C12_NoPrematureEviction == [][C12_Step]_vars

\* C12 witness: a FixedFirstChatHistory of capacity 3 seeded with one message has
\* taken two appends and holds all three messages.
C12_Witness ==
    /\ hist.cls = "FixedFirstChatHistory"
    /\ hist.total_length = 3
    /\ Len(Seeds) = 1
    /\ Len(appended) = 2
    /\ hist.items = Seeds \o appended

\* C13. Unbounded capacity: a history of either class with total_length = -1
\* never evicts: it holds all its seeds followed by all appended messages, in
\* order, and no append raised.
C13_Unbounded ==
    hist.total_length = -1
        => /\ hist.items = Seeds \o appended
           /\ Len(hist.items) = Len(Seeds) + Len(appended)
           /\ ~last_raised

\* C13 witness: an unbounded FixedFirstChatHistory seeded with two messages has
\* taken four appends and holds six messages.
C13_Witness ==
    /\ hist.total_length = -1
    /\ hist.cls = "FixedFirstChatHistory"
    /\ Len(Seeds) = 2
    /\ Len(appended) = 4
    /\ Len(hist.items) = 6

\* C14. FixedFirst capacity precondition: a FixedFirstChatHistory with a
\* capacity below 2 is refused when it is constructed, so no such object is
\* ever constructed successfully to fail later inside append.
C14_FailFast ==
    (/\ hist.cls = "FixedFirstChatHistory"
     /\ hist.total_length \in 0..1)
        => ~last_raised

\* C18. FixedFirst contents after overflow: a FixedFirstChatHistory of capacity
\* c >= 2 seeded with the single message s holds, after m appends, exactly s
\* followed by the last min(m, c - 1) appended messages in the order they were
\* appended, and no append raised. (Between two such states an append at length
\* c keeps s, drops the message at position 1 and adds the new one at the end.)
C18_FixedFirstContents ==
    (/\ hist.cls = "FixedFirstChatHistory"
     /\ hist.total_length >= 2
     /\ Len(Seeds) = 1)
        => /\ hist.items
                = Seeds \o LastN(appended,
                                 Min(Len(appended), hist.total_length - 1))
           /\ ~last_raised

\* C18 witness: a FixedFirstChatHistory of capacity 3 seeded with one message
\* has evicted twice and holds the seed and the third and fourth appended
\* messages, which differ from the evicted ones.
C18_Witness ==
    /\ hist.cls = "FixedFirstChatHistory"
    /\ hist.total_length = 3
    /\ Len(Seeds) = 1
    /\ Len(appended) = 4
    /\ appended[1] /= appended[3]
    /\ appended[2] /= appended[4]
    /\ appended[2] /= Seeds[1]
    /\ hist.items = <<Seeds[1], appended[3], appended[4]>>

-----------------------------------------------------------------------------
(* More properties of ReflectionAgent.run (Spec) *)

\* the client answered, but with no text: no choice at all, or a first choice
\* whose content is null
CarriesNoText(resp) ==
    IF resp.kind /= "response" THEN FALSE
    ELSE IF Len(resp.choices) = 0 THEN TRUE
    ELSE resp.choices[1].message.content.tag = "None"

\* C15. Malformed response is an error: a completion call whose response
\* carries no text returns no string to run (it raises), so nothing is appended
\* to either history for it.
C15_MalformedResponseIsError ==
    \A i \in 1..Len(calls) :
        CarriesNoText(calls[i].response) => calls[i].output = None

\* C16. Negative step budget is a precondition violation: run called with a
\* negative n_steps raises before any completion call.
C16_NegativeBudgetRaises ==
    (pc /= "idle" /\ n_steps < 0)
        => /\ pc = "raised"
           /\ calls = <<>>

\* C16 as amended: run called with a negative n_steps does not raise: it makes
\* no completion call and returns the empty string.
C16_NegativeBudgetReturnsEmpty ==
    (pc /= "idle" /\ n_steps < 0)
        => /\ pc = "returned"
           /\ result = Str(<<>>)
           /\ calls = <<>>
           /\ final_generation = <<>>

\* C16 witness: run was called with n_steps = -1 and has returned "".
C16_Witness ==
    /\ pc = "returned"
    /\ n_steps = -1
    /\ result = Str(<<>>)
    /\ calls = <<>>

\* a history of at most 3 messages after one more message went in behind its
\* fixed first message
WithOneMore(items, m) ==
    IF Len(items) = 3 THEN <<items[1], items[3], m>> ELSE Append(items, m)

\* C17. Continue step: a reflect call whose critique does not contain "<OK>"
\* puts that critique once into the generation history, as its last message
\* with role user, and once into the reflection history, as its last message
\* with role assistant, before the next generate call and also when the budget
\* is exhausted by this iteration.
C17_Step ==
    (/\ Len(calls') = Len(calls) + 1
     /\ calls'[Len(calls')].stage = "reflect"
     /\ calls'[Len(calls')].output.tag = "str"
     /\ ~CritiqueHasOK(calls'[Len(calls')]))
        => LET crit == calls'[Len(calls')].output.val IN
           /\ generation_history'.items
                 = WithOneMore(generation_history.items,
                               [role |-> "user", content |-> crit])
           /\ reflection_history'.items
                 = WithOneMore(reflection_history.items,
                               [role |-> "assistant", content |-> crit])
           /\ pc' \in {"generate", "returned"}
           /\ pc' = "returned" <=> Len(calls') = 2 * n_steps

\* C17 as a property of every step of run.
C17_ContinueStep == [][C17_Step]_vars

\* C17 witness: the second and last iteration of a run with n_steps = 2 ended
\* with a critique without the sentinel, which is the last message of both
\* histories.
C17_Witness ==
    /\ pc = "returned"
    /\ n_steps = 2
    /\ Len(calls) = 4
    /\ LastCall.output.tag = "str"
    /\ ~CritiqueHasOK(LastCall)
    /\ generation_history.items[3] = [role |-> "user", content |-> LastCall.output.val]
    /\ reflection_history.items[3]
          = [role |-> "assistant", content |-> LastCall.output.val]
    /\ generation_history.items[2].content /= LastCall.output.val

\* C19. Call ordering: the completion calls of a run alternate generate,
\* reflect, generate, ... starting with generate. A reflect call is issued only
\* when the generate call before it has returned and its candidate is the last
\* message of both histories; a generate call after the first is issued only
\* when the reflect call before it has returned.
C19_Step ==
    Len(calls') = Len(calls) + 1
        => LET c == calls'[Len(calls')] IN
           /\ c.stage = (IF Len(calls) % 2 = 0 THEN "generate" ELSE "reflect")
           /\ (c.stage = "generate" /\ calls /= <<>>)
                 => /\ LastCall.stage = "reflect"
                    /\ LastCall.output.tag = "str"
           /\ c.stage = "reflect"
                 => /\ calls /= <<>>
                    /\ LastCall.stage = "generate"
                    /\ LastCall.output.tag = "str"
                    /\ generation_history.items[Len(generation_history.items)]
                          = [role |-> "assistant", content |-> LastCall.output.val]
                    /\ reflection_history.items[Len(reflection_history.items)]
                          = [role |-> "user", content |-> LastCall.output.val]
                    /\ c.history = reflection_history.items

\* C19 as a property of every step of run.
C19_CallOrdering == [][C19_Step]_vars

\* C19 witness: two full iterations were made: generate, reflect, generate,
\* reflect.
C19_Witness ==
    /\ Len(calls) = 4
    /\ calls[1].stage = "generate"
    /\ calls[2].stage = "reflect"
    /\ calls[3].stage = "generate"
    /\ calls[4].stage = "reflect"
    /\ calls[4].history[Len(calls[4].history)].content = calls[3].output.val

\* C20. Generation context: the first generate call of a run is given exactly
\* [system: generation prompt, user: initial message]; the generate call of
\* every later step k is given exactly [system: generation prompt, assistant:
\* candidate of step k-1, user: critique of step k-1], so the initial user
\* message is seen by the generator in step 1 only.
C20_GenerationContext ==
    \A i \in 1..Len(calls) :
        calls[i].stage = "generate"
            => LET sys == [role |-> "system",
                           content |-> ExpectedSystemPrompt(
                                           generation_system_prompt,
                                           BASE_GENERATION_SYSTEM_PROMPT)]
               IN IF i = 1
                  THEN calls[i].history
                          = <<sys, [role |-> "user", content |-> user_msg]>>
                  ELSE /\ i >= 3
                       /\ calls[i - 2].stage = "generate"
                       /\ calls[i - 1].stage = "reflect"
                       /\ calls[i - 2].output.tag = "str"
                       /\ calls[i - 1].output.tag = "str"
                       /\ calls[i].history
                             = <<sys,
                                 [role |-> "assistant",
                                  content |-> calls[i - 2].output.val],
                                 [role |-> "user",
                                  content |-> calls[i - 1].output.val]>>

\* C20 witness: the third generate call of a run was given the system prompt,
\* the second candidate and the second critique, none of them the initial message.
C20_Witness ==
    /\ Len(calls) >= 5
    /\ calls[5].stage = "generate"
    /\ Len(calls[5].history) = 3
    /\ calls[5].history[2] = [role |-> "assistant", content |-> calls[3].output.val]
    /\ calls[5].history[3] = [role |-> "user", content |-> calls[4].output.val]
    /\ calls[1].history[2] = [role |-> "user", content |-> user_msg]

\* C21. Reflection context: the first reflect call of a run is given exactly
\* [system: reflection prompt, user: candidate of step 1]; the reflect call of
\* every later step k is given exactly [system: reflection prompt, assistant:
\* critique of step k-1, user: candidate of step k], so the critic always has
\* the current candidate as the last message and no earlier candidate.
C21_ReflectionContext ==
    \A i \in 1..Len(calls) :
        calls[i].stage = "reflect"
            => LET sys == [role |-> "system",
                           content |-> ExpectedSystemPrompt(
                                           reflection_system_prompt,
                                           BASE_REFLECTION_SYSTEM_PROMPT)]
               IN /\ i >= 2
                  /\ calls[i - 1].stage = "generate"
                  /\ calls[i - 1].output.tag = "str"
                  /\ IF i = 2
                     THEN calls[i].history
                             = <<sys, [role |-> "user",
                                       content |-> calls[1].output.val]>>
                     ELSE /\ calls[i - 2].stage = "reflect"
                          /\ calls[i - 2].output.tag = "str"
                          /\ calls[i].history
                                = <<sys,
                                    [role |-> "assistant",
                                     content |-> calls[i - 2].output.val],
                                    [role |-> "user",
                                     content |-> calls[i - 1].output.val]>>

\* C21 witness: the third reflect call of a run was given the system prompt,
\* the second critique and the third candidate, which differs from the second
\* candidate.
C21_Witness ==
    /\ Len(calls) = 6
    /\ calls[6].stage = "reflect"
    /\ Len(calls[6].history) = 3
    /\ calls[6].history[2] = [role |-> "assistant", content |-> calls[4].output.val]
    /\ calls[6].history[3] = [role |-> "user", content |-> calls[5].output.val]
    /\ calls[3].output /= calls[5].output

(* Properties of ReflectionAgent.run under fair scheduling (FairSpec) *)

\* A run is over: it has returned a value or an exception has left it.
RunOver == pc \in {"returned", "raised"}

\* The number of iterations that range(n_steps) allows.
IterationBudget == IF n_steps > 0 THEN n_steps ELSE 0

\* C22. Termination: provided each completion call returns, run eventually
\* returns, after at most n_steps generate calls and at most n_steps reflect
\* calls; if at least one iteration ran, the value returned is the candidate
\* of the last generate call. A run is over only by returning unless its last
\* completion call raised instead of returning.
C22_Termination ==
    /\ [](/\ Len(GenerateCalls) <= IterationBudget
          /\ Len(ReflectCalls) <= IterationBudget
          /\ pc = "raised" => calls /= <<>> /\ LastCall.output = None
          /\ pc = "returned" /\ calls /= <<>>
                => result = GenerateCalls[Len(GenerateCalls)].output)
    /\ (pc \in {"generate", "reflect"}) ~> RunOver

\* C22 witness: a run with a budget of three used all of it, three generate
\* and three reflect calls that each returned, and came back with the third
\* candidate, which differs from the first.
C22_Witness ==
    /\ pc = "returned"
    /\ n_steps = 3
    /\ Len(GenerateCalls) = 3
    /\ Len(ReflectCalls) = 3
    /\ \A i \in 1..Len(calls) : calls[i].output /= None
    /\ result = GenerateCalls[3].output
    /\ result /= GenerateCalls[1].output

(* Properties of consecutive runs on one agent (SpecRerun) *)

\* the histories run builds before its loop, from its own arguments only
FreshGenerationHistory ==
    <<[role |-> "system",
       content |-> ExpectedSystemPrompt(generation_system_prompt,
                                        BASE_GENERATION_SYSTEM_PROMPT)],
      [role |-> "user", content |-> user_msg]>>
FreshReflectionHistory ==
    <<[role |-> "system",
       content |-> ExpectedSystemPrompt(reflection_system_prompt,
                                        BASE_REFLECTION_SYSTEM_PROMPT)]>>

\* the current run was called with the arguments of the earlier one
SameInputs ==
    /\ earlier.user_msg = user_msg
    /\ earlier.generation_system_prompt = generation_system_prompt
    /\ earlier.reflection_system_prompt = reflection_system_prompt
    /\ earlier.n_steps = n_steps

\* the client has answered the calls of the current run as it answered the
\* calls of the earlier one, as far as both have gone
SameOutputs ==
    \A i \in 1..Min(Len(calls), Len(earlier.calls)) :
        calls[i].response = earlier.calls[i].response

\* C23. No cross-run state: every run on the same agent starts from freshly
\* seeded histories ([system, user: that run's message] for the generator,
\* [system] for the critic), whatever earlier runs did; and a run given the
\* inputs and the model outputs of an earlier run hands the same histories to
\* the same calls and ends the same way with the same result.
C23_NoCrossRunState ==
    /\ pc /= "idle" /\ calls = <<>>
          => /\ generation_history.items = FreshGenerationHistory
             /\ reflection_history.items = FreshReflectionHistory
             /\ final_generation = <<>>
             /\ critique = None
    /\ earlier /= None
          => IF SameInputs /\ SameOutputs
             THEN /\ Len(calls) <= Len(earlier.calls)
                  /\ \A i \in 1..Len(calls) : calls[i] = earlier.calls[i]
                  /\ Len(calls) = Len(earlier.calls)
                        => pc = earlier.pc /\ result = earlier.result
             ELSE TRUE

\* C23 witness: a second run with the arguments and the answers of a first run
\* that went through two full iterations has made the same four calls on the
\* same histories and returned the same candidate.
C23_Witness ==
    /\ earlier /= None
    /\ Len(earlier.calls) = 4
    /\ SameInputs
    /\ calls = earlier.calls
    /\ pc = "returned"
    /\ result = earlier.result
    /\ result = calls[3].output
    /\ calls[1].output /= calls[3].output

====
